---- MODULE Spec2Model ----
(***************************************************************************)
(* Model of src/src/comparator.py: TableComparator.prepare_results         *)
(* (validate_data_quality, join_tables, split_joined_table,                *)
(* compare_records_in_both) followed by visualize_record_consistency, as   *)
(* src/src/runner.py main() drives them.                                   *)
(*                                                                         *)
(* A column name is a sequence of tokens (<<"a", "_left_table">> is the    *)
(* string "a_left_table"), so that the substring test and the replace of   *)
(* split_joined_table are computed on the name, not assumed.  A cell is a  *)
(* string; Null stands for pandas' NaN.  A frame is a record of its column *)
(* names and its rows, a row being the sequence of its cells in column     *)
(* order.                                                                  *)
(***************************************************************************)
EXTENDS Integers, Sequences, FiniteSets, TLC

VARIABLES left_table, right_table, primary_keys, pc, error, attrs,
          joined, left_only, right_only, both, comparison_df,
          record_consistency

vars == <<left_table, right_table, primary_keys, pc, error, attrs,
          joined, left_only, right_only, both, comparison_df,
          record_consistency>>

(* ------------------------------ bounds --------------------------------- *)

\* the most rows of a two-column input table
MaxRows == 2

(* ------------------------------ values --------------------------------- *)

Null == "NaN"

KeyValues == {"x", "y"}

Values == {Null, "", "x"}

Dtypes == {"int64", "object"}

LeftSuffix == "_left_table"

RightSuffix == "_right_table"

MergeColumn == <<"_merge">>

ComparisonColumn == <<"comparison">>

NoError == [type |-> "", message |-> <<>>, raised_in |-> ""]

EmptyFrame == [columns |-> <<>>, rows |-> <<>>]

(* --------------------------- string helpers ---------------------------- *)

\* `"_left_table" in column_name`
Contains(name, suffix) == \E i \in DOMAIN name : name[i] = suffix

\* `column.replace("_left_table", "")`: every occurrence is removed
Replace(name, suffix) == SelectSeq(name, LAMBDA t : t # suffix)

\* name + suffix, as DataFrame.merge renames an overlapping column
WithSuffix(name, suffix) == Append(name, suffix)

(* ---------------------------- frame helpers ---------------------------- *)

Range(s) == {s[i] : i \in DOMAIN s}

\* the position of the (first) column called name
Position(columns, name) ==
    CHOOSE i \in DOMAIN columns :
        /\ columns[i] = name
        /\ \A j \in DOMAIN columns : columns[j] = name => i <= j

\* frame[names]: the named columns, in the order of names
SelectColumns(frame, names) ==
    [columns |-> names,
     rows |-> [r \in DOMAIN frame.rows |->
                 [j \in DOMAIN names |->
                    frame.rows[r][Position(frame.columns, names[j])]]]]

\* frame[frame[name] == value]
WhereEquals(frame, name, value) ==
    [columns |-> frame.columns,
     rows |-> SelectSeq(frame.rows,
                LAMBDA row : row[Position(frame.columns, name)] = value)]

\* the key tuple of a row of a table
KeyOf(columns, row, keys) ==
    [i \in DOMAIN keys |-> row[Position(columns, keys[i])]]

(* ----------------------- validate_data_quality ------------------------- *)

\* dtype.type: the numpy scalar type of a dtype
NumpyType(dtype) ==
    CASE dtype = "int64" -> "numpy.int64"
      [] dtype = "object" -> "numpy.object_"

\* a comparison of the two sets of names, blind to their order
ColumnsEqualSameSet(l, r) == Range(l.columns) = Range(r.columns)

\* all(self.left_table.columns == self.right_table.columns), both of one length
ColumnsEqual(l, r) ==
    \A i \in DOMAIN l.columns : l.columns[i] = r.columns[i]

\* the positions where (left.dtypes == right.dtypes) == False
DtypeMismatches(l, r) ==
    SelectSeq([i \in DOMAIN l.columns |-> i],
              LAMBDA i : l.dtypes[i] # r.dtypes[i])

\* lines 56-62: left_inconsistent_dict is read from the right table's dtypes,
\* right_inconsistent_dict from the left table's
InconsistentDict(l, r) ==
    LET mask == DtypeMismatches(l, r)
        left_inconsistent_dict == [k \in DOMAIN mask |-> r.dtypes[mask[k]]]
        right_inconsistent_dict == [k \in DOMAIN mask |-> l.dtypes[mask[k]]]
    IN  [k \in DOMAIN mask |->
           [key |-> l.columns[mask[k]],
            left_table |-> NumpyType(left_inconsistent_dict[k]),
            right_table |-> NumpyType(right_inconsistent_dict[k])]]

\* table.duplicated(subset = primary_keys) is False on every row
NoDuplicates(table, keys) ==
    \A i, j \in DOMAIN table.rows :
        i < j => KeyOf(table.columns, table.rows[i], keys)
                    # KeyOf(table.columns, table.rows[j], keys)

AssertionError(text) ==
    [type |-> "AssertionError", message |-> <<text>>,
     raised_in |-> "validate_data_quality"]

\* validate_data_quality without its last assert
ValidationErrorLeftDuplicatesOnly(l, r, keys) ==
    IF Len(l.columns) # Len(r.columns)
    THEN AssertionError("The tables must have the same number of columns.")
    ELSE IF ~ColumnsEqual(l, r)
    THEN AssertionError("Columns names are inconsistent.")
    ELSE IF DtypeMismatches(l, r) # <<>>
    THEN [type |-> "InconsistentDataTypesError",
          message |-> InconsistentDict(l, r),
          raised_in |-> "validate_data_quality"]
    ELSE IF ~NoDuplicates(l, keys)
    THEN AssertionError("The left table contains duplicates.")
    ELSE NoError

\* the exception validate_data_quality raises, NoError when it returns
ValidationError(l, r, keys) ==
    IF Len(l.columns) # Len(r.columns)
    THEN AssertionError("The tables must have the same number of columns.")
    ELSE IF ~ColumnsEqual(l, r)
    THEN AssertionError("Columns names are inconsistent.")
    ELSE IF DtypeMismatches(l, r) # <<>>
    THEN [type |-> "InconsistentDataTypesError",
          message |-> InconsistentDict(l, r),
          raised_in |-> "validate_data_quality"]
    ELSE IF ~NoDuplicates(l, keys)
    THEN AssertionError("The left table contains duplicates.")
    ELSE IF ~NoDuplicates(r, keys)
    THEN AssertionError("The right table contains duplicates.")
    ELSE NoError

validate_data_quality ==
    /\ pc = "validate_data_quality"
    /\ LET e == ValidationError(left_table, right_table, primary_keys)
       IN  /\ error' = e
           /\ pc' = IF e = NoError THEN "join_tables" ELSE "raised"
    /\ UNCHANGED <<left_table, right_table, primary_keys, attrs, joined,
                   left_only, right_only, both, comparison_df,
                   record_consistency>>

(* ----------------------------- join_tables ----------------------------- *)

\* the order of two cells under sort_values: strings in lexicographic order,
\* NaN last
Rank(v) ==
    CASE v = "" -> 0
      [] v = "x" -> 1
      [] v = "y" -> 2
      [] v = Null -> 3

\* lexicographic order of two key tuples of the same length
KeyLess(k1, k2) ==
    \E i \in DOMAIN k1 :
        /\ Rank(k1[i]) < Rank(k2[i])
        /\ \A j \in 1..(i - 1) : k1[j] = k2[j]

RECURSIVE SortedKeys(_)
SortedKeys(S) ==
    IF S = {} THEN <<>>
    ELSE LET least == CHOOSE k \in S : \A o \in S \ {k} : KeyLess(k, o)
         IN  <<least>> \o SortedKeys(S \ {least})

RECURSIVE Flatten(_)
Flatten(ss) == IF ss = <<>> THEN <<>> ELSE Head(ss) \o Flatten(Tail(ss))

KeysOf(table, keys) ==
    {KeyOf(table.columns, table.rows[i], keys) : i \in DOMAIN table.rows}

NonKeyColumns(table, keys) ==
    SelectSeq(table.columns, LAMBDA c : c \notin Range(keys))

\* the columns of left.merge(right, on = keys, indicator = True, suffixes = ...):
\* the left table's columns in place, then the right table's non-key columns,
\* a non-key column that both tables hold renamed with its side's suffix
MergedColumns(l, r, keys) ==
    LET rnk == NonKeyColumns(r, keys)
    IN  [i \in DOMAIN l.columns |->
           IF l.columns[i] \notin Range(keys) /\ l.columns[i] \in Range(r.columns)
           THEN WithSuffix(l.columns[i], LeftSuffix)
           ELSE l.columns[i]]
        \o [j \in DOMAIN rnk |->
              IF rnk[j] \in Range(l.columns)
              THEN WithSuffix(rnk[j], RightSuffix)
              ELSE rnk[j]]
        \o <<MergeColumn>>

RightCells(r, keys, row) ==
    LET rnk == NonKeyColumns(r, keys)
    IN  [j \in DOMAIN rnk |-> row[Position(r.columns, rnk[j])]]

\* the joined rows of one key tuple k
MergedRowsOfKey(l, r, keys, k) ==
    LET lk == SelectSeq(l.rows, LAMBDA row : KeyOf(l.columns, row, keys) = k)
        rk == SelectSeq(r.rows, LAMBDA row : KeyOf(r.columns, row, keys) = k)
        missing == [j \in DOMAIN NonKeyColumns(r, keys) |-> Null]
        keyOnly(row) ==
            [i \in DOMAIN l.columns |->
               IF l.columns[i] \in Range(keys)
               THEN row[Position(r.columns, l.columns[i])]
               ELSE Null]
    IN  IF rk = <<>>
        THEN [i \in DOMAIN lk |-> lk[i] \o missing \o <<"left_only">>]
        ELSE IF lk = <<>>
        THEN [j \in DOMAIN rk |->
                keyOnly(rk[j]) \o RightCells(r, keys, rk[j]) \o <<"right_only">>]
        ELSE Flatten([i \in DOMAIN lk |->
                [j \in DOMAIN rk |->
                   lk[i] \o RightCells(r, keys, rk[j]) \o <<"both">>]])

\* an inner join, which keeps the matched key tuples only
MergeInner(l, r, keys) ==
    LET ks == SortedKeys(KeysOf(l, keys) \cap KeysOf(r, keys))
    IN  [columns |-> MergedColumns(l, r, keys),
         rows |-> Flatten([n \in DOMAIN ks |->
                             MergedRowsOfKey(l, r, keys, ks[n])])]

\* how = "outer": the union of the key tuples of both frames, the keys sorted
\* lexicographically (the order pandas documents for an outer merge)
Merge(l, r, keys) ==
    LET ks == SortedKeys(KeysOf(l, keys) \cup KeysOf(r, keys))
    IN  [columns |-> MergedColumns(l, r, keys),
         rows |-> Flatten([n \in DOMAIN ks |->
                             MergedRowsOfKey(l, r, keys, ks[n])])]

join_tables ==
    /\ pc = "join_tables"
    /\ joined' = Merge(left_table, right_table, primary_keys)
    /\ attrs' = attrs \cup {"joined"}
    /\ pc' = "split_joined_table"
    /\ UNCHANGED <<left_table, right_table, primary_keys, error, left_only,
                   right_only, both, comparison_df, record_consistency>>

(* -------------------------- split_joined_table ------------------------- *)

\* lines 78-82 (side "left_only", suffix "_left_table") and 85-89
SideOnly(frame, keys, side, suffix) ==
    LET only == WhereEquals(frame, MergeColumn, side)
        columns == keys \o SelectSeq(only.columns,
                                     LAMBDA c : Contains(c, suffix))
        picked == SelectColumns(only, columns)
    IN  [columns |-> [i \in DOMAIN picked.columns |->
                        Replace(picked.columns[i], suffix)],
         rows |-> picked.rows]

split_joined_table ==
    /\ pc = "split_joined_table"
    /\ left_only' = SideOnly(joined, primary_keys, "left_only", LeftSuffix)
    /\ right_only' = SideOnly(joined, primary_keys, "right_only", RightSuffix)
    /\ both' = WhereEquals(joined, MergeColumn, "both")
    /\ attrs' = attrs \cup {"left_only", "right_only", "both"}
    /\ pc' = "compare_records_in_both"
    /\ UNCHANGED <<left_table, right_table, primary_keys, error, joined,
                   comparison_df, record_consistency>>

(* ------------------------ compare_records_in_both ---------------------- *)

\* no fillna: the null cells stay null
FillnaKeep(rows) == rows

\* both.fillna(""): every null cell becomes the empty string
Fillna(rows) ==
    [r \in DOMAIN rows |->
       [c \in DOMAIN rows[r] |-> IF rows[r][c] = Null THEN "" ELSE rows[r][c]]]

\* the element-wise == of two cells: NaN equals nothing, itself included
CellEquals(a, b) == a # Null /\ b # Null /\ a = b

ValueError(text) ==
    [type |-> "ValueError", message |-> <<text>>,
     raised_in |-> "compare_records_in_both"]

\* lines 106-110: the three rows of one matched record
ComparisonRows(left_row, right_row) ==
    << left_row \o <<"left_table">>,
       right_row \o <<"right_table">>,
       [i \in DOMAIN left_row |-> CellEquals(left_row[i], right_row[i])]
           \o <<"comparison_result">> >>

\* lines 102-110 with the records appended in reverse
ComparisonListReversed(filled, left_columns, right_columns) ==
    LET n == Len(filled.rows)
    IN  [k \in 1..n |->
           ComparisonRows(SelectColumns(filled, left_columns).rows[n + 1 - k],
                          SelectColumns(filled, right_columns).rows[n + 1 - k])]

\* lines 101-110: comparison_df_list, one entry per row of both, in its order
ComparisonList(filled, left_columns, right_columns) ==
    [k \in DOMAIN filled.rows |->
       ComparisonRows(SelectColumns(filled, left_columns).rows[k],
                      SelectColumns(filled, right_columns).rows[k])]

\* lines 95-115: the exception raised (NoError when none) and comparison_df
CompareRecords(frame, columns, keys) ==
    LET left_columns ==
            keys \o SelectSeq(frame.columns, LAMBDA c : Contains(c, LeftSuffix))
        right_columns ==
            keys \o SelectSeq(frame.columns, LAMBDA c : Contains(c, RightSuffix))
        kept == SelectColumns(frame,
                    SelectSeq(frame.columns, LAMBDA c : c # MergeColumn))
        filled == [columns |-> kept.columns, rows |-> Fillna(kept.rows)]
    IN  IF frame.rows # <<>> /\ Len(left_columns) # Len(right_columns)
        THEN [error |-> ValueError(
                  "Can only compare identically-labeled Series objects"),
              df |-> EmptyFrame]
        ELSE IF frame.rows = <<>>
        THEN [error |-> ValueError("No objects to concatenate"),
              df |-> EmptyFrame]
        ELSE IF Len(left_columns) + 1 # Len(columns) + 1
        THEN [error |-> ValueError("Length mismatch"), df |-> EmptyFrame]
        ELSE LET comparison_df_list ==
                     ComparisonList(filled, left_columns, right_columns)
                 concat == [columns |-> columns \o <<ComparisonColumn>>,
                            rows |-> Flatten(comparison_df_list)]
             IN  [error |-> NoError,
                  df |-> SelectColumns(concat, <<ComparisonColumn>> \o columns)]

compare_records_in_both ==
    /\ pc = "compare_records_in_both"
    /\ LET out == CompareRecords(both, left_table.columns, primary_keys)
       IN  /\ error' = out.error
           /\ IF out.error = NoError
              THEN /\ comparison_df' = out.df
                   /\ attrs' = attrs \cup {"comparison_df"}
                   /\ pc' = "visualize_record_consistency"
              ELSE /\ UNCHANGED <<comparison_df, attrs>>
                   /\ pc' = "raised"
    /\ UNCHANGED <<left_table, right_table, primary_keys, joined, left_only,
                   right_only, both, record_consistency>>

(* --------------------- visualize_record_consistency -------------------- *)

\* lines 143-149: per column that is neither "comparison" nor a primary key,
\* the rows of comparison_result whose flag is True and the rows in all (the
\* quotient of the two is the rate)
RecordsConsistency(df, keys) ==
    LET comparison_result ==
            WhereEquals(df, ComparisonColumn, "comparison_result")
        columns == SelectSeq(comparison_result.columns,
                       LAMBDA c : c \notin Range(<<ComparisonColumn>> \o keys))
    IN  [k \in DOMAIN columns |->
           [Column |-> columns[k],
            matching |-> Len(SelectSeq(comparison_result.rows,
                LAMBDA row :
                    row[Position(comparison_result.columns, columns[k])] = TRUE)),
            shape |-> Len(comparison_result.rows)]]

visualize_record_consistency ==
    /\ pc = "visualize_record_consistency"
    /\ LET rc == RecordsConsistency(comparison_df, primary_keys)
       IN  IF \E k \in DOMAIN rc : rc[k].shape = 0
           THEN /\ error' = [type |-> "ZeroDivisionError",
                             message |-> <<"division by zero">>,
                             raised_in |-> "visualize_record_consistency"]
                /\ pc' = "raised"
                /\ UNCHANGED <<record_consistency, attrs>>
           ELSE /\ record_consistency' = rc
                /\ attrs' = attrs \cup {"record_consistency"}
                /\ pc' = "done"
                /\ UNCHANGED error
    /\ UNCHANGED <<left_table, right_table, primary_keys, joined, left_only,
                   right_only, both, comparison_df>>

(* ------------------------------- inputs -------------------------------- *)

Id == <<"id">>

ColA == <<"a">>

ColB == <<"b">>

ColALeft == <<"a", "_left_table">>

\* the column layouts of the input tables
Layouts ==
    { <<Id, ColA>>, <<ColA, Id>>, <<Id, ColALeft>>,
      <<Id, ColA, ColB>>, <<ColA, ColB, Id>> }

\* primary_keys: one or two distinct columns of the left table
KeyChoices(columns) ==
    {<<c>> : c \in Range(columns)}
        \cup {p \in Range(columns) \X Range(columns) : p[1] # p[2]}

RowsOf(columns, keys) ==
    {row \in [DOMAIN columns -> KeyValues \cup Values] :
        \A i \in DOMAIN columns :
            row[i] \in (IF columns[i] \in Range(keys) THEN KeyValues ELSE Values)}

\* a table of more than two columns holds one row at most
RowBound(columns) == IF Len(columns) > 2 THEN 1 ELSE MaxRows

TablesOf(columns, keys) ==
    UNION {[1..n -> RowsOf(columns, keys)] : n \in 0..RowBound(columns)}

AllObject(columns) == [i \in DOMAIN columns |-> "object"]

Unset ==
    /\ pc = "validate_data_quality"
    /\ error = NoError
    /\ attrs = {}
    /\ joined = EmptyFrame
    /\ left_only = EmptyFrame
    /\ right_only = EmptyFrame
    /\ both = EmptyFrame
    /\ comparison_df = EmptyFrame
    /\ record_consistency = <<>>

\* two tables of one schema, any rows
InitData ==
    \E columns \in Layouts :
      \E keys \in KeyChoices(columns) :
        \E lrows \in TablesOf(columns, keys), rrows \in TablesOf(columns, keys) :
            /\ left_table = [columns |-> columns, dtypes |-> AllObject(columns),
                             rows |-> lrows]
            /\ right_table = [columns |-> columns, dtypes |-> AllObject(columns),
                              rows |-> rrows]
            /\ primary_keys = keys

\* two tables of any two schemas, each empty or of one row
InitSchema ==
    \E lcolumns \in Layouts, rcolumns \in Layouts :
      \E keys \in KeyChoices(lcolumns) :
        \E ldtypes \in [DOMAIN lcolumns -> Dtypes],
           rdtypes \in [DOMAIN rcolumns -> Dtypes],
           ln \in 0..1, rn \in 0..1 :
            /\ left_table = [columns |-> lcolumns, dtypes |-> ldtypes,
                             rows |-> [k \in 1..ln |->
                                         [i \in DOMAIN lcolumns |-> "x"]]]
            /\ right_table = [columns |-> rcolumns, dtypes |-> rdtypes,
                              rows |-> [k \in 1..rn |->
                                          [i \in DOMAIN rcolumns |-> "x"]]]
            /\ primary_keys = keys

Init == (InitData \/ InitSchema) /\ Unset

Next ==
    \/ validate_data_quality
    \/ join_tables
    \/ split_joined_table
    \/ compare_records_in_both
    \/ visualize_record_consistency

Spec == Init /\ [][Next]_vars

(* ------------------------------- claims -------------------------------- *)

SharedKeys ==
    KeysOf(left_table, primary_keys) \cap KeysOf(right_table, primary_keys)

AllKeys ==
    KeysOf(left_table, primary_keys) \cup KeysOf(right_table, primary_keys)

\* the two tables pass every check of the validation, stated on the inputs
InputsValid ==
    /\ Len(left_table.columns) = Len(right_table.columns)
    /\ left_table.columns = right_table.columns
    /\ left_table.dtypes = right_table.dtypes
    /\ Cardinality(KeysOf(left_table, primary_keys)) = Len(left_table.rows)
    /\ Cardinality(KeysOf(right_table, primary_keys)) = Len(right_table.rows)

\* the row of a table that carries the key tuple k
RowOfKey(table, k) ==
    CHOOSE row \in Range(table.rows) :
        KeyOf(table.columns, row, primary_keys) = k

\* the rows of a table whose key tuple the other table lacks
RowsAbsentFrom(table, other) ==
    {row \in Range(table.rows) :
        KeyOf(table.columns, row, primary_keys)
            \notin KeysOf(other, primary_keys)}

Normalized(v) == IF v = Null THEN "" ELSE v

\* the cell of the n-th row of comparison_df under the column called name
ComparisonCell(n, name) ==
    comparison_df.rows[n][Position(comparison_df.columns, name)]

\* C1: once the tables are joined and split, left_only and the shared key
\* tuples account for every row of the left table, right_only and the shared
\* key tuples for every row of the right table, and the joined rows carry
\* each key tuple of the union exactly once.
C1_RowCounts ==
    "left_only" \in attrs =>
        /\ Len(left_only.rows) + Cardinality(SharedKeys) = Len(left_table.rows)
        /\ Len(right_only.rows) + Cardinality(SharedKeys) = Len(right_table.rows)
        /\ Len(joined.rows) = Cardinality(AllKeys)
        /\ {KeyOf(joined.columns, joined.rows[n], primary_keys) :
               n \in DOMAIN joined.rows} = AllKeys

C1_Witness ==
    /\ "left_only" \in attrs
    /\ left_only.rows # <<>>
    /\ right_only.rows # <<>>
    /\ SharedKeys # {}

\* C2: a table compared to an exact copy of itself leaves left_only and
\* right_only without rows, and every match flag of comparison_df is true.
C2_SelfComparison ==
    left_table = right_table =>
        /\ "left_only" \in attrs =>
              left_only.rows = <<>> /\ right_only.rows = <<>>
        /\ "comparison_df" \in attrs =>
              \A n \in DOMAIN comparison_df.rows :
                  comparison_df.rows[n][1] = "comparison_result" =>
                      \A c \in 2..Len(comparison_df.rows[n]) :
                          comparison_df.rows[n][c] = TRUE

C2_Witness ==
    /\ left_table = right_table
    /\ "comparison_df" \in attrs
    /\ Len(left_table.rows) >= 2
    /\ \E n \in DOMAIN left_table.rows :
           \E c \in DOMAIN left_table.columns : left_table.rows[n][c] = Null

\* C3: the InconsistentDataTypesError names exactly the columns whose dtypes
\* differ, each once, with the left table's type under left_table and the
\* right table's type under right_table.
C3_TypesReported ==
    error.type = "InconsistentDataTypesError" =>
        /\ \A i \in DOMAIN left_table.columns :
              Cardinality({k \in DOMAIN error.message :
                              error.message[k].key = left_table.columns[i]})
                  = IF left_table.dtypes[i] # right_table.dtypes[i]
                    THEN 1 ELSE 0
        /\ \A k \in DOMAIN error.message :
              \E i \in DOMAIN left_table.columns :
                  /\ error.message[k].key = left_table.columns[i]
                  /\ error.message[k].left_table
                        = NumpyType(left_table.dtypes[i])
                  /\ error.message[k].right_table
                        = NumpyType(right_table.dtypes[i])

\* C4: when the inputs fail any check of the validation, nothing after
\* validate_data_quality runs: no attribute of the join, the split or the
\* comparison is ever set, and the only exception is the validation's.
C4_ValidationGates ==
    ~InputsValid =>
        /\ attrs = {}
        /\ pc \in {"validate_data_quality", "raised"}
        /\ pc = "raised" => error.raised_in = "validate_data_quality"

C4_Witness ==
    /\ pc = "raised"
    /\ error.message = <<"The right table contains duplicates.">>
    /\ left_table.rows # <<>>
    /\ attrs = {}

\* C5: with valid tables that share no key tuple, the run ends in the
\* EmptyMatchSet failure of the column-agreement aggregate, with joined,
\* left_only and right_only produced.
C5_EmptyMatchSet ==
    (InputsValid /\ SharedKeys = {} /\ pc \in {"raised", "done"}) =>
        /\ error.type = "EmptyMatchSet"
        /\ error.raised_in = "visualize_record_consistency"
        /\ {"joined", "left_only", "right_only"} \subseteq attrs

\* C6: in every matched record, a non-key column that is null in the left
\* row and in the right row has its match flag true.
C6_NullsMatch ==
    "comparison_df" \in attrs =>
        \A k \in DOMAIN both.rows :
            \A i \in DOMAIN left_table.columns :
                LET key == KeyOf(both.columns, both.rows[k], primary_keys)
                    name == left_table.columns[i]
                IN  ( /\ name \notin Range(primary_keys)
                      /\ RowOfKey(left_table, key)[i] = Null
                      /\ RowOfKey(right_table, key)[i] = Null )
                        => ComparisonCell(3 * k, name) = TRUE

\* C7: two tables with as many columns and the same set of column names, in
\* a different order, never pass the validation: it raises the column-name
\* assertion.
C7_OrderSensitive ==
    ( /\ Len(left_table.columns) = Len(right_table.columns)
      /\ Range(left_table.columns) = Range(right_table.columns)
      /\ left_table.columns # right_table.columns
      /\ pc # "validate_data_quality" )
        => /\ pc = "raised"
           /\ error = AssertionError("Columns names are inconsistent.")

C7_Witness ==
    /\ Len(left_table.columns) = Len(right_table.columns)
    /\ Range(left_table.columns) = Range(right_table.columns)
    /\ left_table.columns # right_table.columns
    /\ pc = "raised"

\* C8: left_only has the left table's columns in the left table's order and
\* exactly the left table's rows whose key tuple the right table lacks;
\* right_only is the same for the right table.
C8_FilteredSlice ==
    "left_only" \in attrs =>
        /\ left_only.columns = left_table.columns
        /\ Range(left_only.rows) = RowsAbsentFrom(left_table, right_table)
        /\ Len(left_only.rows)
              = Cardinality(RowsAbsentFrom(left_table, right_table))
        /\ right_only.columns = right_table.columns
        /\ Range(right_only.rows) = RowsAbsentFrom(right_table, left_table)
        /\ Len(right_only.rows)
              = Cardinality(RowsAbsentFrom(right_table, left_table))

\* C9: comparison_df lists the columns in the left table's order, and under
\* each column name stand the left value of that column, the right value of
\* that column and a flag that is their equality for a non-key column and is
\* never false for a key column.
C9_ColumnsAligned ==
    "comparison_df" \in attrs =>
        /\ comparison_df.columns = <<ComparisonColumn>> \o left_table.columns
        /\ \A k \in DOMAIN both.rows :
              \A i \in DOMAIN left_table.columns :
                  LET key == KeyOf(both.columns, both.rows[k], primary_keys)
                      name == left_table.columns[i]
                      lv == Normalized(RowOfKey(left_table, key)[i])
                      rv == Normalized(RowOfKey(right_table, key)[i])
                  IN  /\ ComparisonCell(3 * k - 2, name) = lv
                      /\ ComparisonCell(3 * k - 1, name) = rv
                      /\ IF name \in Range(primary_keys)
                         THEN ComparisonCell(3 * k, name) # FALSE
                         ELSE ComparisonCell(3 * k, name) = (lv = rv)

\* C10: comparison_df holds one record of three rows (left values, right
\* values, flags, in that order) per row of both, the k-th record carrying
\* the key tuple of the k-th row of both.
C10_OneRecordPerMatch ==
    "comparison_df" \in attrs =>
        /\ Len(comparison_df.rows) = 3 * Len(both.rows)
        /\ \A k \in DOMAIN both.rows :
              LET key == KeyOf(both.columns, both.rows[k], primary_keys)
              IN  /\ comparison_df.rows[3 * k - 2][1] = "left_table"
                  /\ comparison_df.rows[3 * k - 1][1] = "right_table"
                  /\ comparison_df.rows[3 * k][1] = "comparison_result"
                  /\ \A j \in DOMAIN primary_keys :
                        /\ comparison_df.rows[3 * k - 2][1 + j] = key[j]
                        /\ comparison_df.rows[3 * k - 1][1 + j] = key[j]

C10_Witness ==
    /\ "comparison_df" \in attrs
    /\ Len(both.rows) >= 2
    /\ KeyOf(both.columns, both.rows[1], primary_keys)
          # KeyOf(left_table.columns, left_table.rows[1], primary_keys)

====
